---- MODULE Spec2Model ----
(***************************************************************************)
(* Model of scripts/classify_pdbs.py: the sequential batch classifier      *)
(* classify_pdb_batch, the thread-pool classifier                          *)
(* parallel_classify_pdb_batch, the pickle checkpoints written by save_pkl *)
(* and the summary printed by verbose_analysis.                            *)
(*                                                                         *)
(* download_pdb is an external capability: each call returns a truthy      *)
(* value, returns a falsy value, or raises; the model chooses among the    *)
(* three at every call.  PDB identifiers are opaque and distinct, so they  *)
(* are numbered 1, 2, ... in the iteration order of data.                  *)
(***************************************************************************)
EXTENDS Integers, Sequences, FiniteSets, TLC

\* Bounds of the model: the most identifiers of a sequential input and of a
\* parallel input.
MaxIds == 5
MaxParIds == 3

\* The literal of "count % 10 == 0".
CheckpointInterval == 10

\* data.keys() in dict iteration order.
Keys == <<"A", "B">>

Groups == {Keys[j] : j \in 1..Len(Keys)}

COMPLETE_IDs_FILE == "./pdb_ids_complete.pkl"
INCOMPLETE_IDs_FILE == "./pdb_ids_incomplete.pkl"
NOT_DOWNLOADABLE_IDs_FILE == "./pdb_ids_not_downloadable.pkl"

Files == {COMPLETE_IDs_FILE, INCOMPLETE_IDs_FILE, NOT_DOWNLOADABLE_IDs_FILE}

\* What one call of download_pdb can do.
Outcomes == {"truthy", "falsy", "exception"}

VARIABLES
    classification_type, \* "sequential" or "parallel" (main)
    data,                \* the input: group key -> sequence of identifiers
    pc,                  \* position of the main thread
    number_of_pdb_ids,   \* local of both batch functions
    complete,            \* dict: group key -> list
    incomplete,          \* dict: group key -> list
    not_downloadable,    \* dict: group key -> list
    count,               \* sequential mode: the processed counter
    pos,                 \* sequential mode: items the two for loops have taken
    futures,             \* parallel mode: number of tasks submitted so far
    task,                \* parallel mode: state of each process_pdb task
    result,              \* what download_pdb did for each identifier
    disk,                \* the three pickle files
    writes,              \* log of the save_pkl calls: file and items processed
    report,              \* what verbose_analysis computed
    calls,               \* how often download_pdb was called for each identifier
    earlier              \* the run of main before this one, if there was one

vars == <<classification_type, data, pc, number_of_pdb_ids, complete,
          incomplete, not_downloadable, count, pos, futures, task, result,
          disk, writes, report, calls, earlier>>

----------------------------------------------------------------------------
\* Pure helpers.

\* sum([len(v) for v in d.values()])
RECURSIVE SumLen(_, _)
SumLen(d, ks) ==
    IF ks = {} THEN 0
    ELSE LET k == CHOOSE x \in ks : TRUE
         IN  Len(d[k]) + SumLen(d, ks \ {k})

TotalLen(d) == SumLen(d, DOMAIN d)

\* The (k, pdb_id) pairs in the order "for k, v in data.items(): for pdb_id in v".
RECURSIVE ItemsFrom(_, _)
ItemsFrom(d, j) ==
    IF j > Len(Keys) THEN <<>>
    ELSE [i \in 1..Len(d[Keys[j]]) |-> [k |-> Keys[j], pdb_id |-> d[Keys[j]][i]]]
         \o ItemsFrom(d, j + 1)

\* The pairs of the loops, every pair taken a second time after the last.
ItemsTwice(d) == ItemsFrom(d, 1) \o ItemsFrom(d, 1)

Items(d) == ItemsFrom(d, 1)

\* {k: [] for k in data.keys()}
EmptyLists(d) == [k \in DOMAIN d |-> <<>>]

\* m[k].append(pdb_id), dropping what the list held.
AppendLosing(m, k, pdb_id) == [m EXCEPT ![k] = <<pdb_id>>]

\* m[k].append(pdb_id), inserting at the front.
AppendFront(m, k, pdb_id) == [m EXCEPT ![k] = <<pdb_id>> \o @]

\* m[k].append(pdb_id), under the first key instead of k.
AppendFirstKey(m, k, pdb_id) == [m EXCEPT ![Keys[1]] = Append(@, pdb_id)]

\* m[k].append(pdb_id), done twice.
AppendTwice(m, k, pdb_id) == [m EXCEPT ![k] = Append(Append(@, pdb_id), pdb_id)]

\* m[k].append(pdb_id)
ListAppend(m, k, pdb_id) == [m EXCEPT ![k] = Append(@, pdb_id)]

\* A filter that keeps every key.
KeepAll(m) == m

\* A filter with the test inverted: it keeps the keys of the empty lists.
FilterInverted(m) == [k \in {x \in DOMAIN m : m[x] = <<>>} |-> m[k]]

\* A filter that never drops the last key.
FilterKeepLast(m) ==
    [k \in {x \in DOMAIN m : m[x] # <<>> \/ x = Keys[Len(Keys)]} |-> m[k]]

\* {k: v for k, v in m.items() if v}
FilterEmpty(m) == [k \in {x \in DOMAIN m : m[x] # <<>>} |-> m[k]]

\* The number of identifiers in the groups that come before Keys[j].
RECURSIVE Before(_, _)
Before(sizes, j) ==
    IF j = 1 THEN 0 ELSE sizes[Keys[j - 1]] + Before(sizes, j - 1)

KeyIndex(k) == CHOOSE j \in 1..Len(Keys) : Keys[j] = k

\* The input with the given group sizes, identifiers numbered in iteration order.
InputOf(sizes) ==
    [k \in Groups |-> [i \in 1..sizes[k] |-> Before(sizes, KeyIndex(k)) + i]]

\* The input that brings the counter of the sequential loop to the checkpoint
\* interval in the last group: the interval's identifiers spread evenly.
CheckpointRun == [k \in Groups |-> CheckpointInterval \div Len(Keys)]

\* CheckpointRun with one more identifier in the last group: the loop goes
\* on after the checkpoint.
PastCheckpointRun ==
    [k \in Groups |-> CheckpointRun[k] + (IF k = Keys[Len(Keys)] THEN 1 ELSE 0)]

NoFile == [exists |-> FALSE, content |-> <<>>]

NoReport == [called |-> FALSE]

\* No run of main came before this one.
NoEarlier == [ran |-> FALSE]

\* What download_pdb can do for an identifier: the capability is
\* deterministic, so a second run gets what the run before it got.
Answers(e, pdb_id) == IF e.ran THEN {e.result[pdb_id]} ELSE Outcomes

\* A file that a failed save_pkl left truncated: open(file, "wb") succeeded
\* and pkl.dump did not complete.
TornFile == [exists |-> TRUE, content |-> <<>>, torn |-> TRUE]

\* A save_pkl call inside a try whose handler lets the run go on.
SaveErrorCaught(from) ==
    IF from \in {"ckpt_complete", "ckpt_incomplete", "ckpt_not_downloadable"}
    THEN "loop"
    ELSE "verbose"

\* Where the main thread is after save_pkl raised: the calls are outside
\* every try block, so the exception leaves the batch function.
AfterSaveError(from) == "save_failed"

\* save_pkl(file, data) that extends the lists the file holds.
save_pkl_append(d, file, m) ==
    [d EXCEPT ![file] =
        [exists |-> TRUE,
         content |-> [k \in DOMAIN d[file].content \cup DOMAIN m |->
                        (IF k \in DOMAIN d[file].content THEN d[file].content[k] ELSE <<>>)
                        \o (IF k \in DOMAIN m THEN m[k] ELSE <<>>)]]]

\* save_pkl(file, data) that updates the pickled mapping key by key and keeps
\* the keys it is not given.
save_pkl_merge(d, file, m) ==
    [d EXCEPT ![file] =
        [exists |-> TRUE,
         content |-> [k \in DOMAIN d[file].content \cup DOMAIN m |->
                        IF k \in DOMAIN m THEN m[k] ELSE d[file].content[k]]]]

\* save_pkl(file, data) that writes every mapping to the first file.
save_pkl_one_file(d, file, m) ==
    [d EXCEPT ![COMPLETE_IDs_FILE] = [exists |-> TRUE, content |-> m]]

\* save_pkl(file, data): the file is replaced by the pickled mapping.
save_pkl(d, file, m) == [d EXCEPT ![file] = [exists |-> TRUE, content |-> m]]

\* The exact value of c / number_of_pdb_ids * 100, as a fraction.
Percentage(c, n) == [num |-> c * 100, den |-> n]

\* concurrent.futures.wait(futures) that returns at once.
NoWait(t) == TRUE

\* concurrent.futures.wait(futures) and the exit of the executor's with block.
AllDone(t) == \A i \in DOMAIN t : t[i] = "done"

----------------------------------------------------------------------------
\* The state at the first loop: lines 64-69 and 130-133 have run.  The inputs
\* are every split of at most MaxIds (MaxParIds) identifiers over the groups
\* and, for the sequential loop, CheckpointRun.

Init ==
    /\ classification_type \in {"sequential", "parallel"}
    /\ \E sizes \in [Groups -> 0..MaxIds] \cup {CheckpointRun} :
          /\ \/ SumLen(InputOf(sizes), Groups)
                   <= (IF classification_type = "parallel" THEN MaxParIds ELSE MaxIds)
             \/ classification_type = "sequential" /\ sizes = CheckpointRun
          /\ data = InputOf(sizes)
    /\ pc = IF classification_type = "parallel" THEN "pool" ELSE "loop"
    /\ number_of_pdb_ids = TotalLen(data)
    /\ complete = EmptyLists(data)
    /\ incomplete = EmptyLists(data)
    /\ not_downloadable = EmptyLists(data)
    /\ count = 0
    /\ pos = 0
    /\ futures = 0
    /\ task = IF classification_type = "parallel"
              THEN [t \in 1..TotalLen(data) |-> "unsubmitted"]
              ELSE <<>>
    /\ result = [i \in 1..TotalLen(data) |-> "none"]
    /\ disk = [f \in Files |-> NoFile]
    /\ writes = <<>>
    /\ report = NoReport
    /\ calls = [i \in 1..TotalLen(data) |-> 0]
    /\ earlier = NoEarlier

----------------------------------------------------------------------------
\* classify_pdb_batch

\* The for loops take the next identifier and count it (lines 71-74).
SeqNext ==
    /\ pc = "loop"
    /\ pos < Len(Items(data))
    /\ pos' = pos + 1
    /\ count' = count + 1
    /\ pc' = "download"
    /\ UNCHANGED <<classification_type, data, number_of_pdb_ids, complete,
                   incomplete, not_downloadable, futures, task, result, disk,
                   writes, report, calls, earlier>>

\* download_pdb returns or raises, the identifier is appended and the
\* checkpoint test is made (lines 75-85).
SeqClassify ==
    /\ pc = "download"
    /\ LET item == Items(data)[pos] IN
       \E outcome \in Answers(earlier, item.pdb_id) :
          /\ calls' = [calls EXCEPT ![item.pdb_id] = @ + 1]
          /\ result' = [result EXCEPT ![item.pdb_id] = outcome]
          /\ complete' = IF outcome = "truthy"
                         THEN ListAppend(complete, item.k, item.pdb_id)
                         ELSE complete
          /\ incomplete' = IF outcome = "falsy"
                           THEN ListAppend(incomplete, item.k, item.pdb_id)
                           ELSE incomplete
          /\ not_downloadable' = IF outcome = "exception"
                                 THEN ListAppend(not_downloadable, item.k, item.pdb_id)
                                 ELSE not_downloadable
          \* "continue" in the except clause skips the checkpoint test
          /\ pc' = IF outcome # "exception" /\ count % CheckpointInterval = 0
                   THEN "ckpt_complete"
                   ELSE "loop"
    /\ UNCHANGED <<classification_type, data, number_of_pdb_ids, count, pos,
                   futures, task, disk, writes, report, earlier>>

\* One save_pkl call at program position from, continuing at position to.
Save(from, file, m, to) ==
    /\ pc = from
    /\ disk' = save_pkl(disk, file, m)
    /\ writes' = Append(writes, [file |-> file, at |-> from, ok |-> TRUE,
                                 processed |-> TotalLen(complete) + TotalLen(incomplete)
                                               + TotalLen(not_downloadable)])
    /\ pc' = to
    /\ UNCHANGED <<classification_type, data, number_of_pdb_ids, complete,
                   incomplete, not_downloadable, count, pos, futures, task,
                   result, report,
                   calls, earlier>>

\* The periodic checkpoint (lines 86-88).
SeqCheckpoint ==
    \/ Save("ckpt_complete", COMPLETE_IDs_FILE, complete, "ckpt_incomplete")
    \/ Save("ckpt_incomplete", INCOMPLETE_IDs_FILE, incomplete, "ckpt_not_downloadable")
    \/ Save("ckpt_not_downloadable", NOT_DOWNLOADABLE_IDs_FILE, not_downloadable, "loop")

\* Both loops are exhausted: filtering out empty lists (lines 91-93).
SeqFilter ==
    /\ pc = "loop"
    /\ pos = Len(Items(data))
    /\ complete' = FilterEmpty(complete)
    /\ incomplete' = FilterEmpty(incomplete)
    /\ not_downloadable' = FilterEmpty(not_downloadable)
    /\ pc' = "final_complete"
    /\ UNCHANGED <<classification_type, data, number_of_pdb_ids, count, pos,
                   futures, task, result, disk, writes, report,
                   calls, earlier>>

----------------------------------------------------------------------------
\* parallel_classify_pdb_batch

\* executor.submit(process_pdb, pdb_id, k) for the next pair (lines 147-151).
ParSubmit ==
    /\ pc = "pool"
    /\ futures < Len(Items(data))
    /\ futures' = futures + 1
    /\ task' = [task EXCEPT ![futures + 1] = "pending"]
    /\ UNCHANGED <<classification_type, data, pc, number_of_pdb_ids, complete,
                   incomplete, not_downloadable, count, pos, result, disk,
                   writes, report,
                   calls, earlier>>

\* process_pdb: the call of download_pdb returns or raises (line 138).
ProcessPdbDownload(t) ==
    /\ task[t] = "pending"
    /\ \E outcome \in Answers(earlier, Items(data)[t].pdb_id) :
          result' = [result EXCEPT ![Items(data)[t].pdb_id] = outcome]
    /\ calls' = [calls EXCEPT ![Items(data)[t].pdb_id] = @ + 1]
    /\ task' = [task EXCEPT ![t] = "downloaded"]
    /\ UNCHANGED <<classification_type, data, pc, number_of_pdb_ids, complete,
                   incomplete, not_downloadable, count, pos, futures, disk,
                   writes, report, earlier>>

\* process_pdb: the append to the shared mapping (lines 139-144).
ProcessPdbAppend(t) ==
    /\ task[t] = "downloaded"
    /\ LET item == Items(data)[t]
           outcome == result[item.pdb_id] IN
          /\ complete' = IF outcome = "truthy"
                         THEN ListAppend(complete, item.k, item.pdb_id)
                         ELSE complete
          /\ incomplete' = IF outcome = "falsy"
                           THEN ListAppend(incomplete, item.k, item.pdb_id)
                           ELSE incomplete
          /\ not_downloadable' = IF outcome = "exception"
                                 THEN ListAppend(not_downloadable, item.k, item.pdb_id)
                                 ELSE not_downloadable
    /\ task' = [task EXCEPT ![t] = "done"]
    /\ UNCHANGED <<classification_type, data, pc, number_of_pdb_ids, count, pos,
                   futures, result, disk, writes, report,
                   calls, earlier>>

ProcessPdb == \E t \in DOMAIN task : ProcessPdbDownload(t) \/ ProcessPdbAppend(t)

\* All tasks are submitted and waited for: filtering out empty lists
\* (lines 152-157).
ParFilter ==
    /\ pc = "pool"
    /\ futures = Len(Items(data))
    /\ AllDone(task)
    /\ complete' = FilterEmpty(complete)
    /\ incomplete' = FilterEmpty(incomplete)
    /\ not_downloadable' = FilterEmpty(not_downloadable)
    /\ pc' = "final_complete"
    /\ UNCHANGED <<classification_type, data, number_of_pdb_ids, count, pos,
                   futures, task, result, disk, writes, report,
                   calls, earlier>>

----------------------------------------------------------------------------
\* The end of both batch functions.

\* The final checkpoint (lines 96-98 and 159-161).
FinalCheckpoint ==
    \/ Save("final_complete", COMPLETE_IDs_FILE, complete, "final_incomplete")
    \/ Save("final_incomplete", INCOMPLETE_IDs_FILE, incomplete, "final_not_downloadable")
    \/ Save("final_not_downloadable", NOT_DOWNLOADABLE_IDs_FILE, not_downloadable, "verbose")

\* verbose_analysis (lines 36-41); the division raises ZeroDivisionError
\* when number_of_pdb_ids is 0.
verbose_analysis(c, i, n, total) ==
    LET total_complete == TotalLen(c)
        total_incomplete == TotalLen(i)
        total_not_downloadable == TotalLen(n)
    IN  IF total = 0
        THEN [called |-> TRUE, raised |-> TRUE,
              number_of_pdb_ids |-> total,
              total_complete |-> total_complete,
              total_incomplete |-> total_incomplete,
              total_not_downloadable |-> total_not_downloadable]
        ELSE [called |-> TRUE, raised |-> FALSE,
              number_of_pdb_ids |-> total,
              total_complete |-> total_complete,
              total_incomplete |-> total_incomplete,
              total_not_downloadable |-> total_not_downloadable,
              complete_percentage |-> Percentage(total_complete, total),
              incomplete_percentage |-> Percentage(total_incomplete, total),
              not_downloadable_percentage |-> Percentage(total_not_downloadable, total)]

\* "if verbose: verbose_analysis(...)" and the closing prints
\* (lines 100-105 and 163-169).
Finish ==
    /\ pc = "verbose"
    /\ \E verbose \in BOOLEAN :
          IF verbose
          THEN /\ report' = verbose_analysis(complete, incomplete,
                                             not_downloadable, number_of_pdb_ids)
               /\ pc' = IF report'.raised THEN "raised" ELSE "done"
          ELSE /\ report' = report
               /\ pc' = "done"
    /\ UNCHANGED <<classification_type, data, number_of_pdb_ids, complete,
                   incomplete, not_downloadable, count, pos, futures, task,
                   result, disk, writes,
                   calls, earlier>>

----------------------------------------------------------------------------
\* The file that the save_pkl call at a program position writes.
FileAt(at) ==
    IF at \in {"ckpt_complete", "final_complete"} THEN COMPLETE_IDs_FILE
    ELSE IF at \in {"ckpt_incomplete", "final_incomplete"} THEN INCOMPLETE_IDs_FILE
    ELSE NOT_DOWNLOADABLE_IDs_FILE

\* A save_pkl call raises (lines 16-17): open failed and the file is as it
\* was, or the dump broke off and the file is torn.
SaveFails ==
    /\ pc \in {"ckpt_complete", "ckpt_incomplete", "ckpt_not_downloadable",
               "final_complete", "final_incomplete", "final_not_downloadable"}
    /\ \E torn \in BOOLEAN :
          disk' = IF torn THEN [disk EXCEPT ![FileAt(pc)] = TornFile] ELSE disk
    /\ writes' = Append(writes, [file |-> FileAt(pc), at |-> pc, ok |-> FALSE,
                                 processed |-> TotalLen(complete) + TotalLen(incomplete)
                                               + TotalLen(not_downloadable)])
    /\ pc' = AfterSaveError(pc)
    /\ UNCHANGED <<classification_type, data, number_of_pdb_ids, complete,
                   incomplete, not_downloadable, count, pos, futures, task,
                   result, report, calls, earlier>>

\* The script is run once more on the same pdb_ids.pkl, in either mode when
\* the input is within the bounds of both (lines 172-184, then 64-69 or
\* 130-133); the files of the run before are in place.
Rerun ==
    /\ pc \in {"done", "raised"}
    /\ ~earlier.ran
    /\ TotalLen(data) <= MaxIds
    /\ \E type \in {"sequential", "parallel"} :
          /\ type = classification_type \/ TotalLen(data) <= MaxParIds
          /\ classification_type' = type
          /\ pc' = IF type = "parallel" THEN "pool" ELSE "loop"
          /\ task' = IF type = "parallel"
                     THEN [t \in 1..TotalLen(data) |-> "unsubmitted"]
                     ELSE <<>>
    /\ earlier' = [ran |-> TRUE, classification_type |-> classification_type,
                   result |-> result, disk |-> disk,
                   number_of_pdb_ids |-> number_of_pdb_ids,
                   mappings |-> <<complete, incomplete, not_downloadable>>]
    /\ number_of_pdb_ids' = TotalLen(data)
    /\ complete' = EmptyLists(data)
    /\ incomplete' = EmptyLists(data)
    /\ not_downloadable' = EmptyLists(data)
    /\ count' = 0
    /\ pos' = 0
    /\ futures' = 0
    /\ result' = [i \in 1..TotalLen(data) |-> "none"]
    /\ calls' = [i \in 1..TotalLen(data) |-> 0]
    /\ writes' = <<>>
    /\ report' = NoReport
    /\ UNCHANGED <<data, disk>>

Next ==
    \/ SeqNext
    \/ SeqClassify
    \/ SeqCheckpoint
    \/ SeqFilter
    \/ ParSubmit
    \/ ProcessPdb
    \/ ParFilter
    \/ FinalCheckpoint
    \/ Finish

Spec == Init /\ [][Next]_vars

\* The sequential loop on an input that goes on after the checkpoint.
InitLong ==
    /\ classification_type = "sequential"
    /\ data = InputOf(PastCheckpointRun)
    /\ pc = "loop"
    /\ number_of_pdb_ids = TotalLen(data)
    /\ complete = EmptyLists(data)
    /\ incomplete = EmptyLists(data)
    /\ not_downloadable = EmptyLists(data)
    /\ count = 0
    /\ pos = 0
    /\ futures = 0
    /\ task = <<>>
    /\ result = [i \in 1..TotalLen(data) |-> "none"]
    /\ disk = [f \in Files |-> NoFile]
    /\ writes = <<>>
    /\ report = NoReport
    /\ calls = [i \in 1..TotalLen(data) |-> 0]
    /\ earlier = NoEarlier

NextSeq ==
    \/ SeqNext
    \/ SeqClassify
    \/ SeqCheckpoint
    \/ SeqFilter
    \/ FinalCheckpoint
    \/ Finish

LongSpec == InitLong /\ [][NextSeq]_vars

\* The interpreter keeps running the main thread and every worker thread.
LiveSpec == Spec /\ WF_vars(Next)

\* Two runs of the script in a row.
NextRerun == Next \/ Rerun

RerunSpec == Init /\ [][NextRerun]_vars

\* Runs in which save_pkl can raise.
NextFail == Next \/ SaveFails

FailSpec == Init /\ [][NextFail]_vars

----------------------------------------------------------------------------
\* Vocabulary of the properties.

Sequential == classification_type = "sequential"
Parallel == classification_type = "parallel"

Mappings == <<complete, incomplete, not_downloadable>>

\* The download_pdb outcome that each mapping collects.
OutcomeOf == <<"truthy", "falsy", "exception">>

\* The list a mapping holds for a key; a missing key reads as the empty list.
Get(m, g) == IF g \in DOMAIN m THEN m[g] ELSE <<>>

Elems(seq) == {seq[j] : j \in DOMAIN seq}

Occurrences(seq, x) == Cardinality({j \in DOMAIN seq : seq[j] = x})

\* How often an identifier occurs under key g of mapping number c.
OccursAt(c, g, x) == Occurrences(Get(Mappings[c], g), x)

InputIds == UNION {Elems(data[g]) : g \in Groups}

Entries == TotalLen(complete) + TotalLen(incomplete) + TotalLen(not_downloadable)

\* Every identifier of the input sits exactly once in the three mappings,
\* under the key of its group and in the mapping of its download outcome:
\* each sits once where it belongs and the mappings hold nothing else.
Partitioned ==
    /\ \A g \in Groups : \A x \in Elems(data[g]) :
          /\ result[x] \in Outcomes
          /\ \E c \in 1..3 : OutcomeOf[c] = result[x] /\ OccursAt(c, g, x) = 1
    /\ Entries = Cardinality(InputIds)

\* The sequential loops are exhausted and the mappings are not filtered yet.
LoopFinished == Sequential /\ pc = "loop" /\ pos = Len(Items(data))

\* Claim C1: in sequential mode, when the loop has finished and before the
\* empty lists are filtered out, every input identifier appears exactly once
\* across complete, incomplete and not_downloadable, under its own group key
\* and in the mapping that matches its download outcome.
C1_PartitionAfterLoop == LoopFinished => Partitioned

\* C1 witness: the loop has finished on an input with two non-empty groups in
\* which all three outcomes occurred.
C1_Witness ==
    /\ LoopFinished
    /\ \A g \in Groups : data[g] # <<>>
    /\ \A o \in Outcomes : \E x \in InputIds : result[x] = o
    /\ \E g \in Groups : \A c \in 1..3 : Mappings[c][g] # <<>>

\* The run is over: normally ("done") or with an uncaught exception ("raised").
Processed(x) == result[x] \in Outcomes

FinalWritten ==
    /\ Len(writes) >= 3
    /\ \A f \in Files : disk[f].exists
    /\ disk[COMPLETE_IDs_FILE].content = complete
    /\ disk[INCOMPLETE_IDs_FILE].content = incomplete
    /\ disk[NOT_DOWNLOADABLE_IDs_FILE].content = not_downloadable

\* Claim C2 (safety form): the run never ends with an uncaught exception,
\* whatever downloads raise; and when it has ended, every identifier was
\* processed, the final checkpoint is written and every identifier whose
\* download raised sits in not_downloadable.
C2_NeverAborts ==
    /\ pc # "raised"
    /\ pc = "done" =>
          /\ \A x \in InputIds : Processed(x)
          /\ FinalWritten
          /\ \A g \in Groups : \A x \in Elems(data[g]) :
                result[x] = "exception" => x \in Elems(Get(not_downloadable, g))

\* The numbers of processed identifiers at which a periodic checkpoint was
\* completed (its third file written), in order.
PeriodicCheckpoints ==
    LET third == SelectSeq(writes, LAMBDA w : w.at = "ckpt_not_downloadable")
    IN  [j \in 1..Len(third) |-> third[j].processed]

\* Claim C3: in sequential mode a checkpoint of all three mappings is written
\* every time the counter, which runs across the groups, reaches a multiple
\* of 10, whatever the outcome of that identifier: between iterations the
\* periodic checkpoints so far are those after items 10, 20, ...
C3_CheckpointAtEveryMultiple ==
    (Sequential /\ pc = "loop") =>
        /\ count = pos
        /\ PeriodicCheckpoints =
              [j \in 1..(count \div CheckpointInterval) |-> j * CheckpointInterval]

\* The identifier is in the persisted file of some category.
Persisted(x) ==
    \E f \in Files : disk[f].exists /\
        \E g \in DOMAIN disk[f].content : x \in Elems(disk[f].content[g])

Classified(x) == \E c \in 1..3 : \E g \in DOMAIN Mappings[c] : x \in Elems(Mappings[c][g])

\* The classifications a crash would lose now.
Lost == Cardinality({x \in InputIds : Classified(x) /\ ~Persisted(x)})

\* Claim C4: in sequential mode, between iterations, at most
\* checkpoint_interval - 1 = 9 identifiers are classified in memory and not
\* in the persisted checkpoint.
C4_BoundedLoss ==
    (Sequential /\ pc = "loop") => Lost <= CheckpointInterval - 1

\* The place of an identifier in the input order.
Position(x) == CHOOSE p \in 1..Len(Items(data)) : Items(data)[p].pdb_id = x

\* The mapping of category c after exactly the first n identifiers of the
\* input, in input order, with one (possibly empty) list for every key.
FirstClassified(c, n) ==
    [g \in Groups |->
        SelectSeq(data[g], LAMBDA x : Position(x) <= n /\ result[x] = OutcomeOf[c])]

\* The three files hold exactly the classifications of the first n identifiers.
DiskHoldsFirst(n) ==
    /\ disk[COMPLETE_IDs_FILE] = [exists |-> TRUE, content |-> FirstClassified(1, n)]
    /\ disk[INCOMPLETE_IDs_FILE] = [exists |-> TRUE, content |-> FirstClassified(2, n)]
    /\ disk[NOT_DOWNLOADABLE_IDs_FILE] = [exists |-> TRUE, content |-> FirstClassified(3, n)]

\* Claim C5: in sequential mode, once k identifiers are processed, k the
\* latest multiple of the checkpoint interval, the persisted checkpoint is
\* the one taken after k identifiers: the three files hold exactly the
\* classifications of the first k identifiers in input order.
C5_CheckpointHoldsFirstK ==
    (Sequential /\ pc = "loop" /\ count >= CheckpointInterval) =>
        DiskHoldsFirst(count - (count % CheckpointInterval))

\* The empty lists have been filtered out.
Filtered == pc \in {"final_complete", "final_incomplete", "final_not_downloadable",
                    "verbose", "done", "raised"}

\* Claim C6: after the filtering, in both modes, no key of a final mapping
\* maps to an empty list, and a group key is in a final mapping exactly when
\* one of its identifiers got that outcome.
C6_NoEmptyGroupAfterFilter ==
    Filtered =>
        \A c \in 1..3 :
            /\ \A g \in DOMAIN Mappings[c] : Mappings[c][g] # <<>>
            /\ DOMAIN Mappings[c] =
                  {g \in Groups : \E x \in Elems(data[g]) : result[x] = OutcomeOf[c]}

\* C6 witness: filtered mappings of an input with one empty group and one
\* group whose every download raised; that group is only in not_downloadable.
C6_Witness ==
    /\ Filtered
    /\ \E g \in Groups : data[g] = <<>>
    /\ \E g \in Groups :
          /\ Len(data[g]) >= 2
          /\ \A x \in Elems(data[g]) : result[x] = "exception"
          /\ DOMAIN not_downloadable = {g}
    /\ DOMAIN complete = {}
    /\ DOMAIN incomplete = {}

SavePositions == {"final_complete", "final_incomplete", "final_not_downloadable"}

\* Claim C7: parallel mode submits one task per (group, identifier) pair and
\* writes no file before every task has completed; there is no periodic
\* checkpoint, each category file is written once.
C7_OnlyFinalCheckpoint ==
    Parallel =>
        /\ (writes # <<>> \/ pc \in SavePositions \/ Filtered) =>
              (futures = number_of_pdb_ids /\ \A t \in DOMAIN task : task[t] = "done")
        /\ DOMAIN task = 1..Len(Items(data))
        /\ \A j \in DOMAIN writes : writes[j].at \in SavePositions
        /\ \A f \in Files : Cardinality({j \in DOMAIN writes : writes[j].file = f}) <= 1
        /\ pc \in {"verbose", "done", "raised"} => Len(writes) = 3

\* C7 witness: a parallel run of three tasks has written its three files.
C7_Witness ==
    /\ Parallel
    /\ Len(Items(data)) >= 3
    /\ pc = "verbose"
    /\ Len(writes) = 3

\* Every task of the pool has completed.
Joined == Parallel /\ futures = Len(Items(data)) /\ \A t \in DOMAIN task : task[t] = "done"

\* The identifiers of group g whose download had the outcome of mapping c.
Members(c, g) == {x \in Elems(data[g]) : result[x] = OutcomeOf[c]}

\* Claim C8: in parallel mode, once all tasks have joined, every identifier
\* appears exactly once, under its group and in the category of its outcome,
\* so the membership of every list is fixed by the outcomes alone, whatever
\* the interleaving.
C8_NoLostAppend ==
    (Joined /\ pc = "pool") =>
        /\ Partitioned
        /\ \A c \in 1..3 : \A g \in Groups :
              /\ Elems(Mappings[c][g]) = Members(c, g)
              /\ Len(Mappings[c][g]) = Cardinality(Members(c, g))

\* C8 witness: all tasks joined and two tasks of one group appended to the
\* same list in the opposite of their input order.
C8_Witness ==
    /\ Joined
    /\ pc = "pool"
    /\ \E c \in 1..3 : \E g \in Groups :
          /\ Len(Mappings[c][g]) >= 2
          /\ Position(Mappings[c][g][1]) > Position(Mappings[c][g][2])

RECURSIVE IsSubseq(_, _)
IsSubseq(a, b) ==
    IF a = <<>> THEN TRUE
    ELSE IF b = <<>> THEN FALSE
    ELSE IF Head(a) = Head(b) THEN IsSubseq(Tail(a), Tail(b))
    ELSE IsSubseq(a, Tail(b))

\* Claim C9: in sequential mode every list of every mapping is at all times
\* a subsequence of the input sequence of its group.
C9_InputOrderPreserved ==
    Sequential =>
        \A c \in 1..3 : \A g \in DOMAIN Mappings[c] : IsSubseq(Mappings[c][g], data[g])

\* C9 witness: a sequential run holds a list of two identifiers that are not
\* neighbours in the input, and another list holds the one between them.
C9_Witness ==
    /\ Sequential
    /\ \E g \in DOMAIN complete :
          /\ Len(complete[g]) >= 2
          /\ Position(complete[g][2]) > Position(complete[g][1]) + 1
    /\ \E g \in DOMAIN not_downloadable : not_downloadable[g] # <<>>

\* Claim C10: whenever the reporter has been called, its total_count is the
\* sum of the input group sizes, its three category counts add up to it, and
\* its three percentages are defined and sum to exactly 100.
C10_PercentagesSumTo100 ==
    report.called =>
        /\ report.number_of_pdb_ids = SumLen(data, Groups)
        /\ report.total_complete + report.total_incomplete
             + report.total_not_downloadable = report.number_of_pdb_ids
        /\ ~report.raised
        /\ report.complete_percentage.den = report.number_of_pdb_ids
        /\ report.complete_percentage.num + report.incomplete_percentage.num
             + report.not_downloadable_percentage.num
             = 100 * report.number_of_pdb_ids

----------------------------------------------------------------------------
\* Two runs in a row.

\* The second of two runs has written its final checkpoint.
SecondRunOver == earlier.ran /\ pc \in {"verbose", "done", "raised"}

\* Two mappings with the same keys and, under each key, the same identifiers
\* the same number of times.
SameMembers(m1, m2) ==
    /\ DOMAIN m1 = DOMAIN m2
    /\ \A g \in DOMAIN m1 :
          /\ Elems(m1[g]) = Elems(m2[g])
          /\ Len(m1[g]) = Len(m2[g])

\* Claim C11: when the classification has run twice in the same mode on the
\* same input with the same download outcomes, the second run starting with
\* the files of the first in place, each final file of the second run is
\* identical to that of the first run in sequential mode and has the same
\* keys and the same identifiers per key in parallel mode.
C11_SecondRunSameFiles ==
    (SecondRunOver /\ earlier.classification_type = classification_type) =>
        \A f \in Files :
            /\ disk[f].exists
            /\ earlier.disk[f].exists
            /\ IF Sequential
               THEN disk[f] = earlier.disk[f]
               ELSE SameMembers(disk[f].content, earlier.disk[f].content)

\* C11 witness: a second parallel run has ended whose file lists the
\* identifiers of a group in another order than the file of the first run.
C11_Witness ==
    /\ SecondRunOver
    /\ Parallel
    /\ earlier.classification_type = "parallel"
    /\ \E f \in Files : \E g \in DOMAIN disk[f].content :
          /\ Len(disk[f].content[g]) >= 2
          /\ disk[f].content[g] # earlier.disk[f].content[g]

----------------------------------------------------------------------------
\* The mappings in memory.

\* The identifier has been appended: its loop pass or its task is over.
Appended(x) ==
    IF Sequential THEN result[x] \in Outcomes ELSE task[Position(x)] = "done"

\* The three lists of every group hold identifiers of that group only, share
\* no identifier, and hold every appended identifier exactly once: their
\* concatenation has no repetition and holds just the appended identifiers
\* of the group.
MappingsSound ==
    \A g \in Groups :
        LET all == Get(complete, g) \o Get(incomplete, g) \o Get(not_downloadable, g)
        IN  /\ Cardinality(Elems(all)) = Len(all)
            /\ Elems(all) = {x \in Elems(data[g]) : Appended(x)}

\* Claim C12 as stated: in every reachable state of a run in either mode the
\* mappings are sound, and in sequential mode the number of entries of the
\* three mappings equals the counter.
C12_EntriesEqualCount ==
    /\ MappingsSound
    /\ Sequential => Entries = count

\* Claim C12 as amended: in every reachable state of a run in either mode
\* the mappings are sound; in sequential mode the number of entries equals
\* the counter between loop passes and after the loop, and is one less than
\* the counter while the download of the counted identifier is under way.
C12_EntriesFollowCount ==
    /\ MappingsSound
    /\ Sequential => Entries = (IF pc = "download" THEN count - 1 ELSE count)

\* C12 witness: a sequential run has counted its third identifier and waits
\* for its download, with the two before it in different mappings.
C12_Witness ==
    /\ Sequential
    /\ pc = "download"
    /\ count = 3
    /\ Entries = 2
    /\ \E c \in 1..3 : TotalLen(Mappings[c]) = 1

----------------------------------------------------------------------------
\* What the files hold.

\* No key of the file maps to an empty list.
NoEmptyList(f) == \A g \in DOMAIN disk[f].content : disk[f].content[g] # <<>>

\* Claim C13 as stated: at every checkpoint write, periodic or final, the
\* persisted mapping has no key with an empty list, so no persisted file
\* ever holds a group mapped to an empty list.
C13_NoEmptyGroupPersisted == \A f \in Files : disk[f].exists => NoEmptyList(f)

\* The save_pkl call that was made last.
LastWrite == writes[Len(writes)]

\* Claim C13 as amended: a file written by the final checkpoint has no key
\* with an empty list, so none of the three files has one when the run is
\* over; a file written by a periodic checkpoint has one list, empty or
\* not, for every group of the input.
C13_OnlyFinalWriteFiltered ==
    /\ writes # <<>> =>
          IF LastWrite.at \in SavePositions
          THEN NoEmptyList(LastWrite.file)
          ELSE DOMAIN disk[LastWrite.file].content = Groups
    /\ pc \in {"verbose", "done", "raised"} =>
          \A f \in Files : disk[f].exists /\ NoEmptyList(f)

\* C13 witness: a run is over whose periodic checkpoint had written the
\* incomplete mapping with nothing but empty lists; the final file has no key.
C13_Witness ==
    /\ pc = "done"
    /\ \E j \in DOMAIN writes : writes[j].at = "ckpt_incomplete"
    /\ TotalLen(incomplete) = 0
    /\ DOMAIN disk[INCOMPLETE_IDs_FILE].content = {}
    /\ TotalLen(not_downloadable) > 0

\* The file of mapping number c.
FileOf == <<COMPLETE_IDs_FILE, INCOMPLETE_IDs_FILE, NOT_DOWNLOADABLE_IDs_FILE>>

\* The number of identifiers of the input in the groups before Keys[j].
RECURSIVE InputBefore(_)
InputBefore(j) == IF j = 1 THEN 0 ELSE Len(data[Keys[j - 1]]) + InputBefore(j - 1)

\* The identifiers of group g among the first n of the input whose download
\* had the outcome of mapping c, in input order.
ClassifiedUpTo(c, g, n) ==
    LET mine == n - InputBefore(KeyIndex(g))
        taken == IF mine < 0 THEN 0
                 ELSE IF mine > Len(data[g]) THEN Len(data[g])
                 ELSE mine
    IN  SelectSeq(SubSeq(data[g], 1, taken), LAMBDA x : result[x] = OutcomeOf[c])

\* The file of mapping c holds the classifications of the first n
\* identifiers; an absent file and a missing key read as empty.
FileHoldsFirst(c, n) ==
    \A g \in Groups : Get(disk[FileOf[c]].content, g) = ClassifiedUpTo(c, g, n)

\* Claim C14 as stated: in every reachable state of a sequential run, also
\* between the file writes of one checkpoint, the three files together hold
\* exactly the classifications of the first j identifiers, for one j.
C14_FilesAreOneSnapshot ==
    Sequential => \E j \in 0..Len(Items(data)) : \A c \in 1..3 : FileHoldsFirst(c, j)

\* The mappings whose file the checkpoint under way has written already.
WrittenNow ==
    IF pc \in {"ckpt_incomplete", "final_incomplete"} THEN {1}
    ELSE IF pc \in {"ckpt_not_downloadable", "final_not_downloadable"} THEN {1, 2}
    ELSE {}

\* Claim C14 as amended: outside the file writes of one checkpoint the three
\* files hold the classifications of the first j identifiers for one j;
\* between the writes of one checkpoint the files already written hold the
\* classifications of all identifiers processed so far and the other files
\* those of the first j, the checkpoint before.
C14_SnapshotOutsideWrites ==
    Sequential =>
        LET now == Entries
            written == WrittenNow
            OldAt(j) == \A c \in (1..3) \ written : FileHoldsFirst(c, j)
        IN  /\ \A c \in written : FileHoldsFirst(c, now)
            \* the likely values of j first, then every value
            /\ \/ OldAt(0)
               \/ OldAt(now)
               \/ OldAt(now - (now % CheckpointInterval))
               \/ \E j \in 0..Len(Items(data)) : OldAt(j)

\* C14 witness: the final checkpoint of a run that had a periodic checkpoint
\* has written the complete file only; the identifier processed after the
\* periodic checkpoint is in that file and the other files are older.
C14_Witness ==
    /\ Sequential
    /\ pc = "final_incomplete"
    /\ \E j \in DOMAIN writes : writes[j].at = "ckpt_not_downloadable"
    /\ Entries > CheckpointInterval
    /\ result[Entries] = "truthy"
    /\ FileHoldsFirst(1, Entries)
    /\ ~FileHoldsFirst(1, CheckpointInterval)
    /\ FileHoldsFirst(2, CheckpointInterval)
    /\ TotalLen(incomplete) > 0

----------------------------------------------------------------------------
\* The final checkpoint.

\* The run is over: the final checkpoint is behind it.
Terminated == pc \in {"verbose", "done", "raised"}

\* Claim C15: in both modes, when the run is over, its last three writes are
\* those of the final checkpoint, one per category, and each file is exactly
\* the pruned final mapping of its category: it has a key for the groups with
\* an identifier of that outcome and for no other, and under each key those
\* identifiers once each; nothing that an earlier periodic checkpoint or an
\* earlier run had put in the file is left unless the final mapping has it.
C15_FinalCheckpointReplaces ==
    Terminated =>
        /\ Len(writes) >= 3
        /\ \A c \in 1..3 :
              LET w == writes[Len(writes) - 3 + c]
                  file == disk[FileOf[c]]
              IN  /\ w.file = FileOf[c]
                  /\ w.at \in SavePositions
                  /\ w.ok
                  /\ file = [exists |-> TRUE, content |-> Mappings[c]]
                  /\ DOMAIN file.content = {g \in Groups : Members(c, g) # {}}
                  /\ \A g \in DOMAIN file.content :
                        /\ Elems(file.content[g]) = Members(c, g)
                        /\ Len(file.content[g]) = Cardinality(Members(c, g))

\* C15 witness: a sequential run is over that began on the files of a parallel
\* run which listed the identifiers of a group in another order.
C15_Witness ==
    /\ Terminated
    /\ Sequential
    /\ earlier.ran
    /\ earlier.classification_type = "parallel"
    /\ \E f \in Files : \E g \in DOMAIN disk[f].content :
          /\ g \in DOMAIN earlier.disk[f].content
          /\ disk[f].content[g] # earlier.disk[f].content[g]

----------------------------------------------------------------------------
\* Failing writes.

\* Claim C16: a save_pkl call that fails, periodic or final, in either mode,
\* ends the run where it is: the failed call is the last one made, the run is
\* in no position from which it classifies or writes, the three mappings hold
\* what they held when the call was made (the failure is not turned into a
\* not_downloadable entry, no further identifier is classified), and the
\* summary is not reached.  A run is in that position only after such a call.
C16_SaveFailureIsFatal ==
    /\ \A j \in DOMAIN writes :
          ~writes[j].ok =>
              /\ j = Len(writes)
              /\ pc = "save_failed"
              /\ Entries = writes[j].processed
              /\ ~report.called
    /\ pc = "save_failed" => (writes # <<>> /\ ~LastWrite.ok)

\* C16 witness: the second save_pkl call of a periodic checkpoint has failed
\* and left a torn file, after the first call had written the complete file;
\* one download had raised before.
C16_Witness ==
    /\ pc = "save_failed"
    /\ Len(writes) = 2
    /\ writes[1].ok
    /\ LastWrite.at = "ckpt_incomplete"
    /\ disk[INCOMPLETE_IDs_FILE] = TornFile
    /\ disk[COMPLETE_IDs_FILE].content = complete
    /\ TotalLen(not_downloadable) = 1

----------------------------------------------------------------------------
\* The calls of download_pdb.

\* Claim C17: in both modes download_pdb is called at most once for an
\* identifier of the input, whatever the call returned or raised; an
\* identifier has an outcome exactly when its call was made; and once the
\* loops or the pool are over the call was made for every identifier of the
\* input, none was skipped.
C17_DownloadOncePerId ==
    /\ \A x \in DOMAIN calls :
          /\ calls[x] <= 1
          /\ calls[x] = 1 <=> result[x] \in Outcomes
    /\ Filtered => \A x \in InputIds : calls[x] = 1

\* C17 witness: a run is over in which one download raised and another
\* returned an incomplete file; each of its identifiers was downloaded once.
C17_Witness ==
    /\ pc = "done"
    /\ Len(Items(data)) >= 3
    /\ \E x, y \in InputIds : result[x] = "exception" /\ result[y] = "falsy"
    /\ \A x \in InputIds : calls[x] = 1

----------------------------------------------------------------------------
\* The two modes.

\* A run is over that followed a run of the other mode on the same input with
\* the same download outcomes.
OtherModeRunOver ==
    SecondRunOver /\ earlier.classification_type # classification_type

\* Claim C18: on the same input and with the same download outcomes, the
\* final filtered mappings of a parallel and of a sequential run have the
\* same keys in each category and under each key the same identifiers, and
\* both runs hand the same total count to verbose_analysis.
C18_ModesAgreeUpToOrder ==
    OtherModeRunOver =>
        /\ \A c \in 1..3 : SameMembers(Mappings[c], earlier.mappings[c])
        /\ number_of_pdb_ids = earlier.number_of_pdb_ids
        /\ report.called => report.number_of_pdb_ids = earlier.number_of_pdb_ids

\* C18 witness: a parallel run is over that followed a sequential run; a
\* group has identifiers of two outcomes and the parallel run lists two
\* identifiers of a group in another order than the sequential run did.
C18_Witness ==
    /\ OtherModeRunOver
    /\ Parallel
    /\ \E g \in Groups : g \in DOMAIN complete /\ g \in DOMAIN not_downloadable
    /\ \E c \in 1..3 : \E g \in DOMAIN Mappings[c] :
          /\ Len(Mappings[c][g]) >= 2
          /\ Mappings[c][g] # earlier.mappings[c][g]

----------------------------------------------------------------------------
\* The persisted progress.

IsPrefix(a, b) == Len(a) <= Len(b) /\ SubSeq(b, 1, Len(a)) = a

\* Claim C19: in a sequential run that starts without category files, every
\* step leaves in each file, for each group, a list that has the list held
\* there before the step as a prefix, a missing key reading as the empty
\* list; this holds for the writes of the final checkpoint too, which drop
\* only keys of empty lists.
C19_PersistedNeverRegresses ==
    [][Sequential =>
          \A f \in Files : \A g \in Groups :
              IsPrefix(Get(disk[f].content, g), Get(disk'[f].content, g))]_vars

\* C19 witness: the run is over, the identifier processed after the periodic
\* checkpoint was incomplete and its group had incomplete ones before: the
\* final incomplete file extends the list of the periodic checkpoint by it,
\* and the final complete file has lost the key of a group with no complete
\* identifier.
C19_Witness ==
    /\ Sequential
    /\ pc = "done"
    /\ \E j \in DOMAIN writes :
          writes[j].at = "ckpt_incomplete" /\ writes[j].processed = CheckpointInterval
    /\ Entries = CheckpointInterval + 1
    /\ result[Entries] = "falsy"
    /\ LET last == Keys[Len(Keys)]
           held == Get(disk[INCOMPLETE_IDs_FILE].content, last)
       IN  /\ Len(held) >= 2
           /\ held[Len(held)] = Entries
    /\ DOMAIN disk[COMPLETE_IDs_FILE].content # Groups

====
